---- MODULE Spec2Model ----
(***************************************************************************)
(* Model of the streaming client of asgard-sdk-go                          *)
(* (pkg/client/streamer.go): the producer goroutine that decodes SSE       *)
(* frames and pushes them onto the buffered event channel, and the         *)
(* mutex-guarded pull iterator Next / Current / Err / Close; and of the    *)
(* synchronous request/response client (pkg/client/bot_provider.go) with   *)
(* the agent facades that delegate to it (pkg/client/agents.go).           *)
(*                                                                         *)
(* Pointers are sequences: << >> is nil, <<v>> points to v.  An error is   *)
(* the sequence of the texts of its wrap chain, << >> being the nil error. *)
(***************************************************************************)
EXTENDS Naturals, Sequences, FiniteSets

\* ------------------------------------------------------------------ bounds
\* Frames the server sends on one connection (general specification).
MaxFrames == 3
\* Frames sent beyond the channel's capacity (backpressure specification).
MaxExtra == 2
\* Frames the server sends to each of two handles opened side by side.
MaxPairFrames == 2
\* Chunks the caller's io.Reader yields before it ends.
MaxChunks == 2

\* --------------------------------------------------------------- constants
\* make(chan models.GenericBotSseEventWrapper, 100)
ChanCap == 100

\* Consumer-side threads of control that hold the stream handle.
Threads == {"t1", "t2"}

SseEventTypeRunError == "asgard.run.error"
SseEventTypeMessageDelta == "asgard.message.delta"
SseEventTypeMessageStart == "asgard.message.start"
SseEventTypeMessageComplete == "asgard.message.complete"
\* A type tag that is none of the ten declared SseEventType constants.
UnknownEventType == "vendor.custom"

Nil == << >>

\* Two handles opened by two NewStreaming calls, and the context the caller
\* passes to them: both calls get the same one.
Handles == {1, 2}
Contexts == {"ctx"}

VARIABLES
    opened,       \* "no" | "yes" | "failed": outcome of NewStreaming
    openErr,      \* the error NewStreaming returned
    openArgs,     \* history: the <<config, message>> NewStreaming was called with
    wire,         \* frames the transport has handed to the callback so far
    connResult,   \* "running" | "eof" | "fail": what connection.Connect() returned
    pcP,          \* producer goroutine: "none" | "connect" | "pushErr" | "deferred" | "done"
    eventChan,    \* s.eventChan: buffered items, oldest first
    chanClosed,   \* close(s.eventChan) has run
    currentEvent, \* s.currentEvent (pointer)
    err,          \* s.err
    closed,       \* s.closed
    mu,           \* s.mu: << >> when free, <<t>> when held by thread t
    cancelled,    \* s.ctx is done
    pc,           \* per consumer thread: "idle" | "select" (in Next's select,
                  \* holding s.mu) | "panicked"
    ret,          \* the value the most recent call on the handle returned
    crashed,      \* a goroutine panicked and nothing recovered it
    pushed,       \* history: every item the producer finished pushing, in order
    received,     \* history: every item a Next call received, in order
    delivered,    \* history: events of the Next calls that returned true, in order
    falses,       \* history: Next calls that returned false (0, 1, 2 = two or more)
    closes,       \* history: Close calls that returned (0, 1, 2 = two or more)
    agent,        \* the agent facade: << >> before it is built, else <<a>>
    client,       \* the client built directly from the same configuration
    call,         \* the inputs of the most recent synchronous call
    agentRet,     \* what that call returned when made on the facade
    clientRet,    \* what that call returned when made on the client
    passedConfig, \* the caller's config object as it was when handed over
    callerConfig, \* the same object as it is now
    handles,      \* two stream handles side by side: << >> until opened
    chans,        \* the channels make() has returned so far, by identity
    ctxDone,      \* per caller context: it has been cancelled
    form,         \* the multipart call whose body is being written: << >> or <<f>>
    pipe,         \* io.Pipe() of that call: write error, read error, done
    task,         \* the body writer goroutine: position, panicking
    written,      \* what the goroutine has written into the pipe, in order
    failures      \* history: the errors handed to pw.CloseWithError, in order

\* The state of the synchronous request/response client and of the facades.
syncVars == <<agent, client, call, agentRet, clientRet, passedConfig,
              callerConfig>>

\* The state of the two handles that are opened side by side.
pairVars == <<handles, chans, ctxDone>>

\* The state of the writer of one multipart request body.
pipeVars == <<form, pipe, task, written, failures>>

\* The state of the streaming client.
streamVars == <<opened, openErr, openArgs, wire, connResult, pcP, eventChan,
                chanClosed, currentEvent, err, closed, mu, cancelled, pc, ret,
                crashed, pushed, received, delivered, falses, closes>>

vars == <<opened, openErr, openArgs, wire, connResult, pcP, eventChan,
          chanClosed, currentEvent, err, closed, mu, cancelled, pc, ret,
          crashed, pushed, received, delivered, falses, closes,
          agent, client, call, agentRet, clientRet, passedConfig,
          callerConfig, handles, chans, ctxDone, form, pipe, task, written,
          failures>>

prodVars == <<wire, connResult, pcP, eventChan, chanClosed, pushed>>
consVars == <<currentEvent, err, closed>>
histVars == <<received, delivered, falses, closes>>

\* Some Next call has returned false.
ended == falses >= 1

\* The call counters saturate: 2 stands for two or more.
Bump(n) == IF n < 2 THEN n + 1 ELSE 2

\* ------------------------------------------------------------- data model
\* The payload (data field) of one SSE frame: malformed text, or a JSON
\* object with an eventType, an eventId and an optional fact.runError.
\* The server numbers its frames: the eventId of a frame is its position.
MalformedData == [valid |-> FALSE, eventType |-> "", runError |-> Nil]

ObjectData(t, re) == [valid |-> TRUE, eventType |-> t, runError |-> re]

ErrorDetail == [Code |-> "E500", Message |-> "boom"]

\* The payloads the server may put in a frame.
FrameData ==
    { MalformedData,
      ObjectData(SseEventTypeMessageDelta, Nil),
      ObjectData(UnknownEventType, <<[Error |-> ErrorDetail]>>),
      ObjectData(SseEventTypeRunError, <<[Error |-> ErrorDetail]>>),
      ObjectData(SseEventTypeRunError, Nil) }

\* The event types of the SDK that the model names.
KnownEventTypes ==
    { SseEventTypeRunError, SseEventTypeMessageStart,
      SseEventTypeMessageDelta, SseEventTypeMessageComplete }

\* Well-formed frames of every sort of type and fact, in any order: a
\* message.complete with no fact (and no message.start before it), a
\* message.delta with the fact of another type, a type the SDK does not
\* know with no fact, and a run.error with its fact.
AnyTypeData ==
    { ObjectData(SseEventTypeMessageComplete, Nil),
      ObjectData(SseEventTypeMessageDelta, <<[Error |-> ErrorDetail]>>),
      ObjectData(UnknownEventType, Nil),
      ObjectData(SseEventTypeRunError, <<[Error |-> ErrorDetail]>>) }

\* Only well-formed message.delta frames.
DeltaData == { ObjectData(SseEventTypeMessageDelta, Nil) }

\* Payload d sent as the id-th frame of the connection.
Frame(d, id) ==
    [valid |-> d.valid, eventType |-> d.eventType, eventId |-> id,
     runError |-> d.runError]

\* fmt.Errorf("<text>: %w", inner)
Wrap(text, inner) == <<text>> \o inner

\* json.Unmarshal([]byte(event.Data), &edgeEvent)
Unmarshal(d) ==
    IF d.valid
    THEN [err |-> Nil,
          ev  |-> [EventType |-> d.eventType, EventId |-> d.eventId,
                   Fact |-> [RunError |-> d.runError]]]
    ELSE [err |-> <<"invalid character">>,
          ev  |-> [EventType |-> "", EventId |-> 0, Fact |-> [RunError |-> Nil]]]

\* models.GenericBotSseEventWrapper
Wrapper(ev, ce) == [Event |-> ev, ConnectionError |-> ce]

\* Variant of CallbackItem that pushes the zero event along with the decode
\* error.
CallbackItemKeepsEvent(d) ==
    LET u == Unmarshal(d)
    IN IF u.err # Nil
       THEN Wrapper(<<u.ev>>, Wrap("failed to unmarshal event", u.err))
       ELSE Wrapper(<<u.ev>>, Nil)

\* The item the SubscribeToAll callback pushes for one frame.
CallbackItem(d) ==
    LET u == Unmarshal(d)
    IN IF u.err # Nil
       THEN Wrapper(Nil, Wrap("failed to unmarshal event", u.err))
       ELSE Wrapper(<<u.ev>>, Nil)

\* The item the producer goroutine pushes when Connect fails.
ConnErrorItem == Wrapper(Nil, Wrap("SSE connection failed", <<"transport">>))

\* fmt.Errorf("SSE stream error: %s", ev.Event.Fact.RunError.Error)
RunErrorOf(e) ==
    LET d == e.Fact.RunError[1].Error
    IN <<"SSE stream error", d.Code, d.Message>>

\* s.ctx.Err() once the context is done
CtxErr == <<"context canceled">>

NoRet == [op |-> "none", ok |-> FALSE, ev |-> Nil, err |-> Nil]
RetBool(b) == [op |-> "Next", ok |-> b, ev |-> Nil, err |-> Nil]
RetEvent(p) == [op |-> "Current", ok |-> FALSE, ev |-> p, err |-> Nil]
RetErr(o, e) == [op |-> o, ok |-> FALSE, ev |-> Nil, err |-> e]

\* ------------------------------------------------------------------- Init
Init ==
    /\ opened = "no"
    /\ openErr = Nil
    /\ openArgs = Nil
    /\ wire = << >>
    /\ connResult = "running"
    /\ pcP = "none"
    /\ eventChan = << >>
    /\ chanClosed = FALSE
    /\ currentEvent = Nil
    /\ err = Nil
    /\ closed = FALSE
    /\ mu = Nil
    /\ cancelled = FALSE
    /\ pc = [t \in Threads |-> "idle"]
    /\ ret = NoRet
    /\ crashed = FALSE
    /\ pushed = << >>
    /\ received = << >>
    /\ delivered = << >>
    /\ falses = 0
    /\ closes = 0
    /\ agent = Nil
    /\ client = Nil
    /\ call = Nil
    /\ agentRet = Nil
    /\ clientRet = Nil
    /\ passedConfig = Nil
    /\ callerConfig = Nil
    /\ handles = [h \in Handles |-> Nil]
    /\ chans = << >>
    /\ ctxDone = [c \in Contexts |-> FALSE]
    /\ form = Nil
    /\ pipe = [werr |-> Nil, rerr |-> Nil, done |-> FALSE]
    /\ task = [pc |-> "none", panicking |-> FALSE]
    /\ written = << >>
    /\ failures = << >>

\* --------------------------------------------------- the buffered channel
\* Variant of ChanFull for a channel without a capacity limit.
ChanFullNever(ch) == FALSE

\* Variant of ChanFull for a channel made without a buffer whose sends wait
\* for room.
ChanFullAtZero(ch) == Len(ch) >= 0

\* A send blocks while the buffer holds cap(ch) items.
ChanFull(ch) == Len(ch) >= ChanCap

\* ch <- x
ChanSend(ch, x) == Append(ch, x)

\* The item a receive yields: the oldest one.
ChanHead(ch) == Head(ch)

\* Variant of ChanRest for a receive that leaves the item in the buffer.
ChanRestPeek(ch) == ch

\* What a receive leaves in the buffer.
ChanRest(ch) == Tail(ch)

\* ------------------------------------------------------------ construction
\* Variant of NewStreamingResult without the check of the message: a nil
\* message marshals to null and the stream is opened.
NewStreamingResultNoMessageCheck(config, message) ==
    IF config = "nil"
    THEN [handle |-> FALSE, err |-> <<"config cannot be nil">>,
          producer |-> FALSE]
    ELSE IF message = "unmarshalable"
    THEN [handle |-> FALSE,
          err |-> Wrap("failed to establish SSE connection",
                       Wrap("failed to marshal bot message", <<"json">>)),
          producer |-> FALSE]
    ELSE IF config = "badhost"
    THEN [handle |-> FALSE,
          err |-> Wrap("failed to establish SSE connection",
                       Wrap("failed to create SSE request", <<"url">>)),
          producer |-> FALSE]
    ELSE [handle |-> TRUE, err |-> Nil, producer |-> TRUE]

\* Variant of NewStreamingResult that starts the producer goroutine before
\* the request is built, so that a rejected host leaves it running.
NewStreamingResultEarlyProducer(config, message) ==
    IF config = "nil"
    THEN [handle |-> FALSE, err |-> <<"config cannot be nil">>,
          producer |-> FALSE]
    ELSE IF message = "nil"
    THEN [handle |-> FALSE, err |-> <<"message cannot be nil">>,
          producer |-> FALSE]
    ELSE IF message = "unmarshalable"
    THEN [handle |-> FALSE,
          err |-> Wrap("failed to establish SSE connection",
                       Wrap("failed to marshal bot message", <<"json">>)),
          producer |-> FALSE]
    ELSE IF config = "badhost"
    THEN [handle |-> FALSE,
          err |-> Wrap("failed to establish SSE connection",
                       Wrap("failed to create SSE request", <<"url">>)),
          producer |-> TRUE]
    ELSE [handle |-> TRUE, err |-> Nil, producer |-> TRUE]

\* What NewStreaming(ctx, config, message) returns, with connect() inlined,
\* and whether it started the producer goroutine.  config is "nil", "ok" or
\* "badhost" (a host http.NewRequestWithContext rejects); message is "nil",
\* "ok" or "unmarshalable" (a payload json.Marshal rejects).
NewStreamingResult(config, message) ==
    IF config = "nil"
    THEN [handle |-> FALSE, err |-> <<"config cannot be nil">>,
          producer |-> FALSE]
    ELSE IF message = "nil"
    THEN [handle |-> FALSE, err |-> <<"message cannot be nil">>,
          producer |-> FALSE]
    ELSE IF message = "unmarshalable"
    THEN [handle |-> FALSE,
          err |-> Wrap("failed to establish SSE connection",
                       Wrap("failed to marshal bot message", <<"json">>)),
          producer |-> FALSE]
    ELSE IF config = "badhost"
    THEN [handle |-> FALSE,
          err |-> Wrap("failed to establish SSE connection",
                       Wrap("failed to create SSE request", <<"url">>)),
          producer |-> FALSE]
    ELSE [handle |-> TRUE, err |-> Nil, producer |-> TRUE]

\* The call NewStreaming(ctx, config, message): what it returns and whether
\* the producer goroutine now runs.
NewStreaming(config, message) ==
    /\ opened = "no"
    /\ ~crashed
    /\ LET r == NewStreamingResult(config, message)
       IN /\ opened' = IF r.handle THEN "yes" ELSE "failed"
          /\ openErr' = r.err
          /\ pcP' = IF r.producer THEN "connect" ELSE pcP
    /\ openArgs' = <<config, message>>
    /\ UNCHANGED <<syncVars, pairVars, pipeVars, wire, connResult, eventChan,
                   chanClosed, pushed, consVars, mu, cancelled, pc, ret,
                   crashed, histVars>>

\* ---------------------------------------------------------------- producer
\* Variant of OnFrame in which a frame that fails to decode ends the
\* producer loop.
OnFrameStopsOnDecodeError(data, limit) ==
    /\ pcP = "connect"
    /\ ~crashed
    /\ Len(wire) < limit
    /\ ~ChanFull(eventChan)
    /\ \E d \in data :
          LET f == Frame(d, Len(wire) + 1)
          IN /\ wire' = Append(wire, f)
             /\ eventChan' = ChanSend(eventChan, CallbackItem(f))
             /\ pushed' = Append(pushed, CallbackItem(f))
             /\ pcP' = IF Unmarshal(f).err # Nil THEN "deferred" ELSE pcP
    /\ UNCHANGED <<syncVars, pairVars, pipeVars, opened, openErr, openArgs,
                   connResult, chanClosed, consVars, mu, cancelled, pc, ret,
                   crashed, histVars>>

\* One run of the SubscribeToAll callback: the transport hands over the next
\* frame, the callback decodes it and sends the item; the send blocks while
\* the channel is full.  data is the set of payloads the server may send,
\* limit the number of frames it sends at most.
OnFrame(data, limit) ==
    /\ pcP = "connect"
    /\ ~crashed
    /\ Len(wire) < limit
    /\ ~ChanFull(eventChan)
    /\ \E d \in data :
          LET f == Frame(d, Len(wire) + 1)
          IN /\ wire' = Append(wire, f)
             /\ eventChan' = ChanSend(eventChan, CallbackItem(f))
             /\ pushed' = Append(pushed, CallbackItem(f))
    /\ UNCHANGED <<syncVars, pairVars, pipeVars, opened, openErr, openArgs,
                   connResult, pcP, chanClosed, consVars, mu, cancelled, pc,
                   ret, crashed, histVars>>

\* Variant of ConnectReturns that treats io.EOF as a failure too.
ConnectReturnsEofIsError(result) ==
    /\ pcP = "connect"
    /\ ~crashed
    /\ connResult' = result
    /\ pcP' = "pushErr"
    /\ UNCHANGED <<syncVars, pairVars, pipeVars, opened, openErr, openArgs,
                   wire, eventChan, chanClosed, pushed, consVars, mu,
                   cancelled, pc, ret, crashed, histVars>>

\* Variant of ConnectReturns that reports no termination of the transport:
\* the goroutine goes straight to the deferred close.
ConnectReturnsNeverError(result) ==
    /\ pcP = "connect"
    /\ ~crashed
    /\ connResult' = result
    /\ pcP' = "deferred"
    /\ UNCHANGED <<syncVars, pairVars, pipeVars, opened, openErr, openArgs,
                   wire, eventChan, chanClosed, pushed, consVars, mu,
                   cancelled, pc, ret, crashed, histVars>>

\* s.connection.Connect() returns: io.EOF on a clean end, another error on
\* any other termination of the transport.
ConnectReturns(result) ==
    /\ pcP = "connect"
    /\ ~crashed
    /\ connResult' = result
    /\ pcP' = IF result = "eof" THEN "deferred" ELSE "pushErr"
    /\ UNCHANGED <<syncVars, pairVars, pipeVars, opened, openErr, openArgs,
                   wire, eventChan, chanClosed, pushed, consVars, mu,
                   cancelled, pc, ret, crashed, histVars>>

\* Variant of PushConnError in which the goroutine also stores the error in
\* the handle's error slot.
PushConnErrorSetsErr ==
    /\ pcP = "pushErr"
    /\ ~crashed
    /\ ~ChanFull(eventChan)
    /\ eventChan' = ChanSend(eventChan, ConnErrorItem)
    /\ pushed' = Append(pushed, ConnErrorItem)
    /\ pcP' = "deferred"
    /\ err' = ConnErrorItem.ConnectionError
    /\ UNCHANGED <<syncVars, pairVars, pipeVars, opened, openErr, openArgs,
                   wire, connResult, chanClosed, currentEvent, closed, mu,
                   cancelled, pc, ret, crashed, histVars>>

\* s.eventChan <- {nil, "SSE connection failed: ..."}
PushConnError ==
    /\ pcP = "pushErr"
    /\ ~crashed
    /\ ~ChanFull(eventChan)
    /\ eventChan' = ChanSend(eventChan, ConnErrorItem)
    /\ pushed' = Append(pushed, ConnErrorItem)
    /\ pcP' = "deferred"
    /\ UNCHANGED <<syncVars, pairVars, pipeVars, opened, openErr, openArgs,
                   wire, connResult, chanClosed, consVars, mu, cancelled, pc,
                   ret, crashed, histVars>>

\* defer close(s.eventChan)
CloseChan ==
    /\ pcP = "deferred"
    /\ ~crashed
    /\ chanClosed' = TRUE
    /\ pcP' = "done"
    /\ UNCHANGED <<syncVars, pairVars, pipeVars, opened, openErr, openArgs,
                   wire, connResult, eventChan, pushed, consVars, mu,
                   cancelled, pc, ret, crashed, histVars>>

\* ---------------------------------------------------------------- consumer
\* The caller cancels the context the stream was opened with.
Cancel ==
    /\ ~cancelled
    /\ ~crashed
    /\ cancelled' = TRUE
    /\ UNCHANGED <<syncVars, pairVars, pipeVars, opened, openErr, openArgs,
                   prodVars, consVars, mu, pc, ret, crashed, histVars>>

\* Next returns b to thread t; the deferred s.mu.Unlock() runs.
NextReturns(t, b) ==
    /\ mu' = Nil
    /\ pc' = [pc EXCEPT ![t] = "idle"]
    /\ ret' = RetBool(b)
    /\ falses' = IF b THEN falses ELSE Bump(falses)

\* Variant of Terminated that forgets the error slot.
TerminatedNoErr == closed

\* Variant of Terminated that forgets the closed flag.
TerminatedNoClosed == err # Nil

\* if s.closed || s.err != nil { return false }
Terminated == closed \/ err # Nil

\* Next, up to the select: s.mu.Lock(), then the closed / err check.
NextEnter(t) ==
    /\ opened = "yes"
    /\ ~crashed
    /\ pc[t] = "idle"
    /\ mu = Nil
    /\ IF Terminated
       THEN NextReturns(t, FALSE)
       ELSE /\ mu' = <<t>>
            /\ pc' = [pc EXCEPT ![t] = "select"]
            /\ ret' = ret
            /\ falses' = falses
    /\ UNCHANGED <<syncVars, pairVars, pipeVars, opened, openErr, openArgs,
                   prodVars, consVars, cancelled, crashed, received,
                   delivered, closes>>

\* Variant of NextRecv that delivers only events of a known type whose fact
\* is empty, and ends the stream with an error on any other.
NextRecvValidates(t) ==
    /\ pc[t] = "select"
    /\ ~crashed
    /\ eventChan # << >>
    /\ LET ev == ChanHead(eventChan)
       IN /\ eventChan' = ChanRest(eventChan)
          /\ received' = Append(received, ev)
          /\ IF ev.ConnectionError # Nil
             THEN /\ err' = ev.ConnectionError
                  /\ NextReturns(t, FALSE)
                  /\ UNCHANGED <<currentEvent, delivered, crashed>>
             ELSE IF \/ ev.Event[1].EventType \notin KnownEventTypes
                     \/ ev.Event[1].EventType = SseEventTypeRunError
                     \/ ev.Event[1].Fact.RunError # Nil
             THEN /\ err' = <<"SSE stream error">>
                  /\ NextReturns(t, FALSE)
                  /\ UNCHANGED <<currentEvent, delivered, crashed>>
             ELSE /\ currentEvent' = ev.Event
                  /\ delivered' = Append(delivered, ev.Event[1])
                  /\ NextReturns(t, TRUE)
                  /\ UNCHANGED <<err, crashed>>
    /\ UNCHANGED <<syncVars, pairVars, pipeVars, opened, openErr, openArgs,
                   wire, connResult, pcP, chanClosed, pushed, closed,
                   cancelled, closes>>

\* select case ev, ok := <-s.eventChan with ok true.
NextRecv(t) ==
    /\ pc[t] = "select"
    /\ ~crashed
    /\ eventChan # << >>
    /\ LET ev == ChanHead(eventChan)
       IN /\ eventChan' = ChanRest(eventChan)
          /\ received' = Append(received, ev)
          /\ IF ev.ConnectionError # Nil
             THEN /\ err' = ev.ConnectionError
                  /\ NextReturns(t, FALSE)
                  /\ UNCHANGED <<currentEvent, delivered, crashed>>
             ELSE IF ev.Event[1].EventType = SseEventTypeRunError
             THEN IF ev.Event[1].Fact.RunError = Nil
                  THEN \* nil pointer dereference: the goroutine panics, the
                       \* deferred unlock runs, nothing recovers the panic
                       /\ crashed' = TRUE
                       /\ mu' = Nil
                       /\ pc' = [pc EXCEPT ![t] = "panicked"]
                       /\ UNCHANGED <<currentEvent, err, delivered, ret,
                                      falses>>
                  ELSE /\ err' = RunErrorOf(ev.Event[1])
                       /\ NextReturns(t, FALSE)
                       /\ UNCHANGED <<currentEvent, delivered, crashed>>
             ELSE /\ currentEvent' = ev.Event
                  /\ delivered' = Append(delivered, ev.Event[1])
                  /\ NextReturns(t, TRUE)
                  /\ UNCHANGED <<err, crashed>>
    /\ UNCHANGED <<syncVars, pairVars, pipeVars, opened, openErr, openArgs,
                   wire, connResult, pcP, chanClosed, pushed, closed,
                   cancelled, closes>>

\* Variant of NextChanClosed that drops the current event at the end of the
\* stream.
NextChanClosedClearsCurrent(t) ==
    /\ pc[t] = "select"
    /\ ~crashed
    /\ eventChan = << >>
    /\ chanClosed
    /\ currentEvent' = Nil
    /\ NextReturns(t, FALSE)
    /\ UNCHANGED <<syncVars, pairVars, pipeVars, opened, openErr, openArgs,
                   prodVars, err, closed, cancelled, crashed, received,
                   delivered, closes>>

\* select case ev, ok := <-s.eventChan with ok false: closed and drained.
NextChanClosed(t) ==
    /\ pc[t] = "select"
    /\ ~crashed
    /\ eventChan = << >>
    /\ chanClosed
    /\ NextReturns(t, FALSE)
    /\ UNCHANGED <<syncVars, pairVars, pipeVars, opened, openErr, openArgs,
                   prodVars, consVars, cancelled, crashed, received,
                   delivered, closes>>

\* select case <-s.ctx.Done().
NextCtxDone(t) ==
    /\ pc[t] = "select"
    /\ ~crashed
    /\ cancelled
    /\ err' = CtxErr
    /\ NextReturns(t, FALSE)
    /\ UNCHANGED <<syncVars, pairVars, pipeVars, opened, openErr, openArgs,
                   prodVars, currentEvent, closed, cancelled, crashed,
                   received, delivered, closes>>

\* Variant of Current that reads s.currentEvent without taking the mutex.
CurrentUnlocked(t) ==
    /\ opened = "yes"
    /\ ~crashed
    /\ pc[t] = "idle"
    /\ ret' = RetEvent(currentEvent)
    /\ UNCHANGED <<syncVars, pairVars, pipeVars, opened, openErr, openArgs,
                   prodVars, consVars, mu, cancelled, pc, crashed, histVars>>

\* Current(): lock, read s.currentEvent, unlock.
Current(t) ==
    /\ opened = "yes"
    /\ ~crashed
    /\ pc[t] = "idle"
    /\ mu = Nil
    /\ ret' = RetEvent(currentEvent)
    /\ UNCHANGED <<syncVars, pairVars, pipeVars, opened, openErr, openArgs,
                   prodVars, consVars, mu, cancelled, pc, crashed, histVars>>

\* Err(): lock, read s.err, unlock.
Err(t) ==
    /\ opened = "yes"
    /\ ~crashed
    /\ pc[t] = "idle"
    /\ mu = Nil
    /\ ret' = RetErr("Err", err)
    /\ UNCHANGED <<syncVars, pairVars, pipeVars, opened, openErr, openArgs,
                   prodVars, consVars, mu, cancelled, pc, crashed, histVars>>

\* Variant of Close that reports an error when the stream is already closed.
CloseErrWhenClosed(t) ==
    /\ opened = "yes"
    /\ ~crashed
    /\ pc[t] = "idle"
    /\ mu = Nil
    /\ IF closed
       THEN /\ ret' = RetErr("Close", <<"stream already closed">>)
            /\ UNCHANGED <<closed, currentEvent>>
       ELSE /\ closed' = TRUE
            /\ currentEvent' = Nil
            /\ ret' = RetErr("Close", Nil)
    /\ closes' = Bump(closes)
    /\ UNCHANGED <<syncVars, pairVars, pipeVars, opened, openErr, openArgs,
                   prodVars, err, mu, cancelled, pc, crashed, received,
                   delivered, falses>>

\* Variant of Close that also clears the error slot.
CloseClearsErr(t) ==
    /\ opened = "yes"
    /\ ~crashed
    /\ pc[t] = "idle"
    /\ mu = Nil
    /\ IF closed
       THEN UNCHANGED <<closed, currentEvent, err>>
       ELSE /\ closed' = TRUE
            /\ currentEvent' = Nil
            /\ err' = Nil
    /\ ret' = RetErr("Close", Nil)
    /\ closes' = Bump(closes)
    /\ UNCHANGED <<syncVars, pairVars, pipeVars, opened, openErr, openArgs,
                   prodVars, mu, cancelled, pc, crashed, received, delivered,
                   falses>>

\* Variant of Close that also cancels the stream's context.
CloseCancels(t) ==
    /\ opened = "yes"
    /\ ~crashed
    /\ pc[t] = "idle"
    /\ mu = Nil
    /\ IF closed
       THEN UNCHANGED <<closed, currentEvent, cancelled>>
       ELSE /\ closed' = TRUE
            /\ currentEvent' = Nil
            /\ cancelled' = TRUE
    /\ ret' = RetErr("Close", Nil)
    /\ closes' = Bump(closes)
    /\ UNCHANGED <<syncVars, pairVars, pipeVars, opened, openErr, openArgs,
                   prodVars, err, mu, pc, crashed, received, delivered,
                   falses>>

\* Close(): lock; return nil when already closed; else set closed and drop
\* the current event; unlock.
Close(t) ==
    /\ opened = "yes"
    /\ ~crashed
    /\ pc[t] = "idle"
    /\ mu = Nil
    /\ IF closed
       THEN UNCHANGED <<closed, currentEvent>>
       ELSE /\ closed' = TRUE
            /\ currentEvent' = Nil
    /\ ret' = RetErr("Close", Nil)
    /\ closes' = Bump(closes)
    /\ UNCHANGED <<syncVars, pairVars, pipeVars, opened, openErr, openArgs,
                   prodVars, err, mu, cancelled, pc, crashed, received,
                   delivered, falses>>

\* ----------------------------------------------------------- specifications
Configs == {"nil", "ok", "badhost"}
Messages == {"nil", "ok", "unmarshalable"}

Open == \E c \in Configs, m \in Messages : NewStreaming(c, m)

Producer(data, limit) ==
    \/ OnFrame(data, limit)
    \/ \E r \in {"eof", "fail"} : ConnectReturns(r)
    \/ PushConnError
    \/ CloseChan

\* The Next calls of the threads in T.
Iterate(T) ==
    \/ \E t \in T : NextEnter(t)
    \/ \E t \in T : NextRecv(t)
    \/ \E t \in T : NextChanClosed(t)
    \/ \E t \in T : NextCtxDone(t)

\* The accessor calls of the threads in T.
Access(T) ==
    \/ \E t \in T : Current(t)
    \/ \E t \in T : Err(t)
    \/ \E t \in T : Close(t)

Next ==
    \/ Open
    \/ Producer(FrameData, MaxFrames)
    \/ Iterate(Threads)
    \/ Access(Threads)
    \/ Cancel

Spec == Init /\ [][Next]_vars

\* Backpressure: a server that sends more well-formed frames than the channel
\* holds, and one consumer thread that iterates and may cancel the context.
NextFull ==
    \/ Open
    \/ Producer(DeltaData, ChanCap + MaxExtra)
    \/ Iterate({"t1"})
    \/ Cancel

SpecFull == Init /\ [][NextFull]_vars

\* Event types and facts: a server that sends well-formed frames of every
\* sort, and one consumer thread.
NextTypes ==
    \/ Open
    \/ Producer(AnyTypeData, MaxFrames)
    \/ Iterate({"t1"})
    \/ Access({"t1"})
    \/ Cancel

SpecTypes == Init /\ [][NextTypes]_vars

\* ------------------------------------------------------------- properties
IsPrefix(a, b) ==
    /\ Len(a) <= Len(b)
    /\ \A i \in 1..Len(a) : a[i] = b[i]

\* The events of the frames of the wire that decode, in wire order.
DecodedEvents ==
    LET ok == SelectSeq(wire, LAMBDA d : Unmarshal(d).err = Nil)
    IN [i \in 1..Len(ok) |-> Unmarshal(ok[i]).ev]

\* Frame d decodes to an event that Next hands to the caller.
Deliverable(d) == d.valid /\ d.eventType # SseEventTypeRunError

DecodeError == Wrap("failed to unmarshal event", <<"invalid character">>)

\* C1: when the server sends N well-formed frames (none of type run.error)
\* and ends the stream cleanly, and the context is never cancelled and Close
\* never called, Next returns true exactly N times, the current event after
\* the i-th true is the i-th frame's event, and Next returns false only after
\* all N, leaving Err() nil.
C1_CleanRunDeliversAll ==
    ( /\ \A i \in 1..Len(wire) : Deliverable(wire[i])
      /\ ~cancelled
      /\ ~closed )
    => /\ IsPrefix(delivered, DecodedEvents)
       /\ delivered # << >> => currentEvent = <<DecodedEvents[Len(delivered)]>>
       /\ ended => /\ connResult # "running"
                   /\ Len(received) = Len(pushed)
                   /\ connResult = "eof" => /\ Len(delivered) = Len(wire)
                                            /\ err = Nil

C1_Witness ==
    /\ \A i \in 1..Len(wire) : Deliverable(wire[i])
    /\ Len(wire) >= 2
    /\ connResult = "eof"
    /\ ~cancelled
    /\ ~closed
    /\ Len(delivered) = Len(wire)
    /\ ended
    /\ ret = RetErr("Err", Nil)

\* C2: in every reachable state the events delivered by the successful Next
\* calls are a prefix of the events of the successfully decoded frames, in
\* wire order: nothing is reordered, duplicated or skipped.
C2_DeliveredIsPrefixOfDecoded == IsPrefix(delivered, DecodedEvents)

C2_Witness ==
    /\ Len(delivered) >= 2
    /\ Len(wire) > Len(delivered)
    /\ \E i \in 1..Len(wire) : ~wire[i].valid
    /\ cancelled
    /\ closed

\* C3: when frame k is the first malformed frame, no frame from k on is ever
\* delivered; and with frames 1..k-1 deliverable, the context not cancelled
\* and Close not called, Next returns false only on receiving frame k's item,
\* after delivering frames 1..k-1, with the decode error stored in Err().
C3_FirstMalformedFrameEndsDelivery ==
    \A k \in 1..Len(wire) :
        ( /\ ~wire[k].valid
          /\ \A i \in 1..(k - 1) : wire[i].valid )
        => /\ Len(delivered) < k
           /\ \A i \in 1..Len(delivered) : delivered[i].EventId = i
           /\ ( /\ \A i \in 1..(k - 1) : Deliverable(wire[i])
                /\ ~cancelled
                /\ ~closed
                /\ ended )
              => /\ err = DecodeError
                 /\ Len(received) = k
                 /\ Len(delivered) = k - 1

C3_Witness ==
    /\ Len(wire) >= 3
    /\ Deliverable(wire[1])
    /\ ~wire[2].valid
    /\ Deliverable(wire[3])
    /\ Len(pushed) >= 3
    /\ ~cancelled
    /\ ~closed
    /\ err = DecodeError
    /\ Len(delivered) = 1
    /\ Len(received) = 2
    /\ eventChan # << >>
    /\ ret = RetBool(FALSE)

IsRunError(item) ==
    /\ item.Event # Nil
    /\ item.Event[1].EventType = SseEventTypeRunError

\* C4: a Next call that receives a decoded event of type run.error returns
\* false, stores a non-nil error in Err() and leaves the current event as it
\* was; the current event is never an event of type run.error.
C4_RunErrorEndsNext ==
    /\ [][ \A t \in Threads :
             ( /\ pc[t] = "select"
               /\ received' # received
               /\ IsRunError(received'[Len(received')]) )
             => /\ pc'[t] = "idle"
                /\ ret' = RetBool(FALSE)
                /\ err' # Nil
                /\ currentEvent' = currentEvent ]_vars
    /\ [](currentEvent = Nil \/ currentEvent[1].EventType # SseEventTypeRunError)

\* C5: once a Next call has returned false, no later Next call returns true,
\* whatever the producer pushes and whatever Close and cancel do in between;
\* and no event of a frame that follows a run.error frame is ever delivered.
C5_NextIsTerminal ==
    /\ [][ ended => /\ ended'
                    /\ delivered' = delivered
                    /\ currentEvent' \in {currentEvent, Nil}
                    /\ (ret'.op = "Next" => ~ret'.ok) ]_vars
    /\ [](\A k \in 1..Len(wire) :
             (wire[k].valid /\ wire[k].eventType = SseEventTypeRunError)
             => \A i \in 1..Len(delivered) : delivered[i].EventId < k)

C5_Witness ==
    /\ Len(wire) >= 3
    /\ Deliverable(wire[1])
    /\ wire[2].eventType = SseEventTypeRunError
    /\ wire[2].runError # Nil
    /\ Deliverable(wire[3])
    /\ Len(pushed) >= 3
    /\ eventChan # << >>
    /\ err = RunErrorOf(Unmarshal(wire[2]).ev)
    /\ falses = 2
    /\ ret = RetBool(FALSE)
    /\ Len(delivered) = 1

\* C6: once the context is cancelled, a Next call that returns (one that was
\* in flight, or one made afterwards) on a stream that is neither closed nor
\* errored returns false with an error stored in Err(), the cancellation
\* error unless the call took an error item from the channel; it never
\* returns true.
C6_CancelEndsNext ==
    [][ \A t \in Threads :
          ( /\ cancelled
            /\ ~closed
            /\ err = Nil
            /\ pc[t] = "select"
            /\ pc'[t] = "idle" )
          => /\ ret' = RetBool(FALSE)
             /\ delivered' = delivered
             /\ err' # Nil
             /\ (received' = received => err' = CtxErr) ]_vars

\* C7: the mutex is not held while a Next call waits on an empty channel, so
\* a Close by another thread can complete while that Next is blocked.
C7_MutexFreeWhileNextWaits ==
    \A t \in Threads :
        ( /\ pc[t] = "select"
          /\ eventChan = << >>
          /\ ~chanClosed
          /\ ~cancelled )
        => /\ mu = Nil
           /\ \A u \in Threads \ {t} : pc[u] = "idle" => ENABLED Close(u)

\* C8: every Close returns nil; the first sets closed and clears the current
\* event, a later one changes nothing of the stream; no Close touches the
\* channel, the error slot, the context or the producer.
C8_CloseIdempotent ==
    [][ closes' # closes
        => /\ ret' = RetErr("Close", Nil)
           /\ closed'
           /\ currentEvent' = Nil
           /\ (closed => currentEvent = Nil)
           /\ UNCHANGED <<syncVars, pairVars, pipeVars, opened, openErr,
                          openArgs, prodVars, err, mu, cancelled, pc,
                          crashed, received, delivered, falses>> ]_vars

C8_Witness ==
    /\ closes = 2
    /\ ret = RetErr("Close", Nil)
    /\ closed
    /\ currentEvent = Nil
    /\ Len(delivered) >= 1
    /\ eventChan # << >>

\* C9: once Close has returned the stream stays ended: closed is never reset,
\* no Next call waits, receives from the channel or returns true, the current
\* event stays nil and Current() returns nil, whatever the channel holds and
\* the producer pushes.
C9_ClosedStreamStaysEnded ==
    /\ [](closed => /\ currentEvent = Nil
                    /\ \A t \in Threads : pc[t] # "select"
                    /\ (ret.op = "Next" => ~ret.ok)
                    /\ (ret.op = "Current" => ret.ev = Nil))
    /\ [][ closed => /\ closed'
                     /\ received' = received
                     /\ delivered' = delivered
                     /\ Len(eventChan') >= Len(eventChan) ]_vars

C9_Witness ==
    /\ closed
    /\ Len(delivered) >= 1
    /\ eventChan # << >>
    /\ pcP = "connect"
    /\ err = Nil
    /\ ~cancelled
    /\ falses >= 1
    /\ ret = RetEvent(Nil)

\* C10: the channel never holds more than 100 items, and every item the
\* producer has finished pushing is either received by a Next call or still
\* in the channel, in push order.
C10_ChannelBoundedNoDrop ==
    /\ Len(eventChan) <= ChanCap
    /\ pushed = received \o eventChan

C10_Witness ==
    /\ Len(eventChan) = ChanCap
    /\ Len(pushed) = ChanCap + 1
    /\ Len(received) = 1
    /\ pcP = "connect"

\* An item that reports the end of the transport (not a decode failure).
IsConnError(item) ==
    /\ item.ConnectionError # Nil
    /\ Head(item.ConnectionError) = "SSE connection failed"

\* The positions of the connection-error items among the pushed items.
ConnErrorsPushed == { i \in 1..Len(pushed) : IsConnError(pushed[i]) }

\* C11: on a clean end of the transport (io.EOF) the producer pushes no
\* connection-error item; on any other end it pushes exactly one, as the
\* last item, before it closes the channel; once the channel is closed the
\* producer pushes nothing and does not close it again.
C11_ProducerEndsChannelOnce ==
    /\ [](connResult # "fail" => ConnErrorsPushed = {})
    /\ [](connResult = "fail" /\ pcP = "pushErr" => ConnErrorsPushed = {})
    /\ [](connResult = "fail" /\ pcP \in {"deferred", "done"}
            => ConnErrorsPushed = {Len(pushed)})
    /\ [](chanClosed <=> pcP = "done")
    /\ [][chanClosed => UNCHANGED <<pushed, chanClosed, pcP, connResult>>]_vars
    /\ [][chanClosed => Len(eventChan') <= Len(eventChan)]_vars

C11_Witness ==
    /\ connResult = "fail"
    /\ chanClosed
    /\ Len(pushed) = MaxFrames + 1
    /\ pushed[Len(pushed)] = ConnErrorItem
    /\ received = pushed
    /\ err = ConnErrorItem.ConnectionError

\* C12: NewStreaming called with a nil config or a nil message returns no
\* handle and an error at once: the error is not one of connect(), no frame
\* is ever read, no channel item exists and no producer runs.
C12_NilArgumentFailsBeforeConnect ==
    (openArgs # Nil /\ (openArgs[1] = "nil" \/ openArgs[2] = "nil"))
        => /\ opened = "failed"
           /\ openErr \in {<<"config cannot be nil">>, <<"message cannot be nil">>}
           /\ pcP = "none"
           /\ connResult = "running"
           /\ wire = << >>
           /\ pushed = << >>
           /\ eventChan = << >>
           /\ ~chanClosed

C12_Witness ==
    /\ openArgs = <<"ok", "nil">>
    /\ opened = "failed"
    /\ openErr = <<"message cannot be nil">>

\* C13: every NewStreaming call returns exactly one of a handle and an
\* error; with a handle the producer has been started, with an error no
\* producer runs and the channel is never written or closed.
C13_HandleXorError ==
    /\ opened = "no" => openArgs = Nil /\ pcP = "none"
    /\ opened # "no" => /\ openArgs # Nil
                        /\ (opened = "yes") <=> (openErr = Nil)
    /\ opened = "yes" => pcP # "none"
    /\ opened = "failed" => /\ pcP = "none"
                            /\ pushed = << >>
                            /\ ~chanClosed

C13_Witness ==
    /\ openArgs = <<"badhost", "ok">>
    /\ opened = "failed"
    /\ Len(openErr) = 3

\* C14: when the transport fails before any frame arrives, NewStreaming has
\* returned a handle and a nil error, no Next call returns true, and once a
\* Next call has returned false on the open handle Err() is non-nil: the
\* wrapped connection error, or the context's error after a cancellation.
C14_ConnectFailureSurfacesInNext ==
    (opened = "yes" /\ connResult = "fail" /\ wire = << >>)
        => /\ openErr = Nil
           /\ delivered = << >>
           /\ currentEvent = Nil
           /\ (ended /\ ~closed) => err # Nil
           /\ (ended /\ ~closed /\ ~cancelled)
                 => err = ConnErrorItem.ConnectionError
           /\ (ended /\ ~closed /\ ret.op = "Err") => ret.err # Nil

C14_Witness ==
    /\ opened = "yes"
    /\ openErr = Nil
    /\ connResult = "fail"
    /\ wire = << >>
    /\ falses = 1
    /\ ~closed
    /\ ~cancelled
    /\ ret = RetErr("Err", ConnErrorItem.ConnectionError)

\* A Next call has returned false on the closed, drained channel with no
\* error stored: the stream ended cleanly.
CleanEnd ==
    /\ ended
    /\ err = Nil
    /\ chanClosed
    /\ eventChan = << >>

\* C15: Err() is nil as long as no Next call has returned false, and after a
\* clean end the error slot stays nil whatever Next, Close and cancellation
\* steps follow.
C15_ErrStaysNilAfterCleanEnd ==
    /\ [](~ended => err = Nil)
    /\ []((~ended /\ ret.op = "Err") => ret.err = Nil)
    /\ [][CleanEnd => err' = Nil]_vars

\* Thread t's Next call returns false in this step.
NextReturnsFalse(t) ==
    /\ pc[t] = "select"
    /\ pc'[t] = "idle"
    /\ ret' = RetBool(FALSE)
    /\ falses' = Bump(falses)

\* C16: the error slot is written at most once, from nil to non-nil, and
\* only by a step in which a Next call returns false; once it is non-nil no
\* Next call returns true; no step of Close, Current, Err or the producer
\* changes it.
C16_ErrWrittenOnceByFailedNext ==
    /\ [][err' # err => /\ err = Nil
                        /\ err' # Nil
                        /\ \E t \in Threads : NextReturnsFalse(t)]_vars
    /\ [][err # Nil => /\ delivered' = delivered
                       /\ ret' # RetBool(TRUE) \/ ret' = ret]_vars
    /\ [][(ret' # ret /\ ret'.op \in {"Close", "Current", "Err"})
            => err' = err]_vars
    /\ [][closes' # closes => err' = err]_vars
    /\ [][<<wire, connResult, pcP, chanClosed, pushed>>'
            # <<wire, connResult, pcP, chanClosed, pushed>> => err' = err]_vars

C16_Witness ==
    /\ err # Nil
    /\ eventChan # << >>
    /\ falses = 2
    /\ closes >= 1
    /\ pcP = "done"
    /\ ret = RetErr("Err", err)

\* A step of the producer goroutine: it takes a frame from the transport,
\* pushes an item, sees Connect return, or closes the channel.
ProducerStep ==
    <<wire, connResult, pcP, chanClosed, pushed>>'
        # <<wire, connResult, pcP, chanClosed, pushed>>

\* C17: no producer step changes the consumer-side fields currentEvent, err
\* and closed, nor the mutex and the consumers' positions: the producer
\* writes only the channel.
C17_ProducerWritesOnlyChannel ==
    [][ProducerStep => UNCHANGED <<currentEvent, err, closed, mu, pc, ret>>]_vars

C17_Witness ==
    /\ currentEvent # Nil
    /\ pc["t1"] = "select"
    /\ pcP = "done"
    /\ connResult = "fail"
    /\ eventChan = <<ConnErrorItem>>
    /\ err = Nil

\* ------------------------------------------------- the synchronous client
\* A *BotProviderConfig: << >> is nil.  Only the fields the calls branch on
\* are kept: the HTTP client and the host ("badhost" is a host
\* http.NewRequestWithContext rejects, "" the host of an empty config).
ClientConfigs ==
    {Nil} \cup { <<[HTTPClient |-> h, EdgeServerHost |-> e]>> :
                     h \in {Nil, <<"custom">>}, e \in {"ok", "badhost"} }

\* NewBotProviderClientWithConfig: a nil config becomes an empty one, a nil
\* HTTP client the default one (Timeout: defaultHTTPTimeout).
NewBotProviderClientWithConfig(config) ==
    LET c == IF config = Nil
             THEN [HTTPClient |-> Nil, EdgeServerHost |-> ""]
             ELSE config[1]
    IN [config |-> [c EXCEPT !.HTTPClient =
                               IF @ = Nil THEN <<"default">> ELSE @]]

\* The object behind the caller's pointer once NewBotProviderClientWithConfig
\* has returned: the constructor keeps the pointer and assigns the default
\* HTTP client through it; a nil pointer leaves the caller with nothing.
CallerConfigAfterNew(config) ==
    IF config = Nil
    THEN Nil
    ELSE <<[config[1] EXCEPT !.HTTPClient =
                          IF @ = Nil THEN <<"default">> ELSE @]>>

\* What the server and the network do with one request: the transport
\* fails before it reads the request body ("refused") or after it has sent
\* it ("reset"), or hands back a response whose body can or cannot be read;
\* the response has a status and a body.
HTTPStatuses == {200, 503}
StatusText(n) == IF n = 200 THEN "200" ELSE "503"

\* The data member of an envelope, by its JSON shape.
DataShapes == {"absent", "null", "object", "emptylist", "list"}

\* A response body: text that is not JSON, or an envelope
\* {isSuccess, data, error, errorCode} (apiResponse[T]).
GarbageBody ==
    [json |-> FALSE, isSuccess |-> FALSE, data |-> "absent",
     error |-> Nil, errorCode |-> Nil]

Bodies ==
    {GarbageBody} \cup
    [json : {TRUE}, isSuccess : BOOLEAN, data : DataShapes,
     error : {Nil, <<"bad payload">>}, errorCode : {Nil, <<"E400">>}]

Exchanges ==
    { ex \in [transport : {"refused", "reset", "ok"}, read : {"ok", "fail"},
              status : HTTPStatuses, body : Bodies] :
        /\ ex.transport # "ok"
              => ex.read = "ok" /\ ex.status = 200 /\ ex.body = GarbageBody
        /\ ex.read = "fail" => ex.body = GarbageBody }

\* The exchange in which nothing of the request reaches the server.
Refused ==
    [transport |-> "refused", read |-> "ok", status |-> 200,
     body |-> GarbageBody]

\* json.Unmarshal(respBytes, &payload) succeeds: the body is JSON and its
\* data member fits the type parameter T of apiResponse[T].
DecodesInto(T, body) ==
    /\ body.json
    /\ CASE T = "GenericBotReply" -> body.data \in {"absent", "null", "object"}
         [] T = "Blobs" -> body.data \in {"absent", "null", "emptylist", "list"}
         [] OTHER -> TRUE

\* Variant of responseError that leaves out the code when a message is there.
responseErrorMessageFirst(errMsg, errCode) ==
    IF errMsg = Nil /\ errCode = Nil THEN <<"unknown error">>
    ELSE IF errMsg # Nil THEN <<errMsg[1]>>
    ELSE <<errCode[1]>>

\* responseError: the text, as the sequence of its parts.
responseError(errMsg, errCode) ==
    IF errMsg = Nil /\ errCode = Nil THEN <<"unknown error">>
    ELSE IF errMsg # Nil /\ errCode # Nil
    THEN <<errMsg[1], " (", errCode[1], ")">>
    ELSE IF errMsg # Nil THEN <<errMsg[1]>>
    ELSE <<errCode[1]>>

\* Variant of Envelope that trusts the HTTP status alone.
EnvelopeStatusOnly(T, doText, failText, ex) ==
    IF ex.transport # "ok" THEN Wrap(doText, <<"transport">>)
    ELSE IF ex.read = "fail"
    THEN Wrap("failed to read response body", <<"read">>)
    ELSE IF ~DecodesInto(T, ex.body)
    THEN Wrap("failed to decode response", <<"json">>)
    ELSE IF ex.status # 200
    THEN <<failText, StatusText(ex.status)>>
             \o responseError(ex.body.error, ex.body.errorCode)
    ELSE Nil

\* The part the four calls share, from HTTPClient.Do to the status check:
\* the error it ends with, or nil.  doText and failText are the call's own
\* message texts.
Envelope(T, doText, failText, ex) ==
    IF ex.transport # "ok" THEN Wrap(doText, <<"transport">>)
    ELSE IF ex.read = "fail"
    THEN Wrap("failed to read response body", <<"read">>)
    ELSE IF ~DecodesInto(T, ex.body)
    THEN Wrap("failed to decode response", <<"json">>)
    ELSE IF ex.status # 200 \/ ~ex.body.isSuccess
    THEN <<failText, StatusText(ex.status)>>
             \o responseError(ex.body.error, ex.body.errorCode)
    ELSE Nil

\* What a call did: it returned (val, err) or panicked, after sending the
\* request req (<< >> when none was sent).
Result(req, val, e) == [out |-> "return", req |-> req, val |-> val, err |-> e]
Panic(req) == [out |-> "panic", req |-> req, val |-> Nil, err |-> Nil]

\* The request a call hands to c.config.HTTPClient.Do.
Request(c, path, debug, file) ==
    <<[path |-> path, debug |-> debug, file |-> file,
       via |-> c.config.HTTPClient[1]]>>

\* The file part of a multipart body, by the reader the caller passed:
\* none for a nil reader, broken when the reader fails.
FilePart(reader) ==
    CASE reader = "nil" -> "none"
      [] reader = "ok" -> "whole"
      [] OTHER -> "broken"

\* BotProviderClient.NewStreamer: NewStreaming with the client's config,
\* which is never nil.
NewStreamer(c, message) ==
    LET r == NewStreamingResult(IF c.config.EdgeServerHost = "badhost"
                                THEN "badhost" ELSE "ok", message)
    IN Result(Nil, IF r.handle THEN <<"stream">> ELSE Nil, r.err)

\* BotProviderClient.SendMessage.
SendMessage(c, message, isDebug, ex) ==
    IF message = "nil"
    THEN Result(Nil, Nil, <<"message cannot be nil">>)
    ELSE IF message = "unmarshalable"
    THEN Result(Nil, Nil, Wrap("failed to marshal message", <<"json">>))
    ELSE IF c.config.EdgeServerHost = "badhost"
    THEN Result(Nil, Nil, Wrap("failed to create request", <<"url">>))
    ELSE LET req == Request(c, "message", isDebug, "none")
             e == Envelope("GenericBotReply", "failed to send message",
                           "send message failed", ex)
         IN IF e # Nil
            THEN Result(req, Nil, e)
            ELSE Result(req, <<IF ex.body.data = "object"
                               THEN "reply" ELSE "zero reply">>, Nil)

\* BotProviderClient.TriggerJSON.  The data member is kept raw and decoded
\* after the status check; an absent or null one gives (nil, nil).
TriggerJSON(c, payload, ex) ==
    IF payload = "unmarshalable"
    THEN Result(Nil, Nil, Wrap("failed to marshal json payload", <<"json">>))
    ELSE IF c.config.EdgeServerHost = "badhost"
    THEN Result(Nil, Nil, Wrap("failed to create request", <<"url">>))
    ELSE LET req == Request(c, "json", FALSE, "none")
             e == Envelope("RawMessage", "failed to trigger json api",
                           "trigger json failed", ex)
         IN IF e # Nil
            THEN Result(req, Nil, e)
            ELSE IF ex.body.data \in {"absent", "null"}
            THEN Result(req, Nil, Nil)
            ELSE Result(req, <<ex.body.data>>, Nil)

\* BotProviderClient.TriggerForm: the body is written by a goroutine
\* through a pipe; a nil reader means no file part.
TriggerForm(c, payload, reader, ex) ==
    IF payload = "unmarshalable"
    THEN Result(Nil, Nil,
                Wrap("failed to marshal form json payload", <<"json">>))
    ELSE IF c.config.EdgeServerHost = "badhost"
    THEN Result(Nil, Nil, Wrap("failed to create request", <<"url">>))
    ELSE LET req == Request(c, "form", FALSE, FilePart(reader))
             e == Envelope("RawMessage", "failed to trigger form api",
                           "trigger form failed", ex)
         IN IF e # Nil
            THEN Result(req, Nil, e)
            ELSE IF ex.body.data \in {"absent", "null"}
            THEN Result(req, Nil, Nil)
            ELSE Result(req, <<ex.body.data>>, Nil)

\* payload.Data after the envelope decoded into apiResponse[[]models.Blob]:
\* an absent or null data member leaves the slice nil, a list holds its
\* blobs.
BlobsOf(data) == IF data = "list" THEN <<"blob1", "blob2">> ELSE << >>

\* Variant of FirstBlob that picks the last blob of the list.
LastBlob(list) == list[Len(list)]

\* &payload.Data[0]
FirstBlob(list) == list[1]

\* BotProviderClient.UploadBlob.  The writer goroutine does not check the
\* reader: once the transport has taken the form field, io.Copy(part, nil)
\* dereferences the nil reader and the goroutine panics.
UploadBlob(c, reader, ex) ==
    IF c.config.EdgeServerHost = "badhost"
    THEN Result(Nil, Nil, Wrap("failed to create request", <<"url">>))
    ELSE LET req == Request(c, "blob", FALSE, FilePart(reader))
             e == Envelope("Blobs", "failed to upload blob",
                           "upload blob failed", ex)
         IN IF reader = "nil" /\ ex.transport # "refused"
            THEN Panic(req)
            ELSE IF e # Nil
            THEN Result(req, Nil, e)
            ELSE IF Len(BlobsOf(ex.body.data)) = 0
            THEN Result(req, Nil,
                 <<"upload blob succeeded but no blob metadata returned">>)
            ELSE Result(req, <<FirstBlob(BlobsOf(ex.body.data))>>, Nil)

\* ------------------------------------------------------ the agent facades
\* NewBotAgentWithConfig / NewFunctionAgentWithConfig: the facade's only
\* field is the client built from the configuration.
NewBotAgentWithConfig(config) ==
    [kind |-> "bot", client |-> NewBotProviderClientWithConfig(config)]

NewFunctionAgentWithConfig(config) ==
    [kind |-> "function", client |-> NewBotProviderClientWithConfig(config)]

\* Variant of BotAgentSendMessage that never asks for debug output.
BotAgentSendMessageNoDebug(a, message, isDebug, ex) ==
    SendMessage(a.client, message, FALSE, ex)

\* The methods of botAgent and functionAgent.
BotAgentNewStreamer(a, message) == NewStreamer(a.client, message)

BotAgentSendMessage(a, message, isDebug, ex) ==
    SendMessage(a.client, message, isDebug, ex)

BotAgentUploadBlob(a, reader, ex) == UploadBlob(a.client, reader, ex)

FunctionAgentTriggerJSON(a, payload, ex) == TriggerJSON(a.client, payload, ex)

FunctionAgentTriggerForm(a, payload, reader, ex) ==
    TriggerForm(a.client, payload, reader, ex)

\* The inputs of one call: the operation and its arguments ("-" for an
\* argument the operation does not have).
Payloads == {"ok", "unmarshalable"}
Readers == {"nil", "ok", "failing"}

BotCalls ==
    [op : {"NewStreamer"}, message : Messages, isDebug : {FALSE},
     payload : {"-"}, reader : {"-"}]
    \cup [op : {"SendMessage"}, message : Messages, isDebug : BOOLEAN,
          payload : {"-"}, reader : {"-"}]
    \cup [op : {"UploadBlob"}, message : {"-"}, isDebug : {FALSE},
          payload : {"-"}, reader : Readers]

FunctionCalls ==
    [op : {"TriggerJSON"}, message : {"-"}, isDebug : {FALSE},
     payload : Payloads, reader : {"-"}]
    \cup [op : {"TriggerForm"}, message : {"-"}, isDebug : {FALSE},
          payload : Payloads, reader : Readers]

\* The call k made on the client c, the network answering with ex.
ClientCall(c, k, ex) ==
    CASE k.op = "NewStreamer" -> NewStreamer(c, k.message)
      [] k.op = "SendMessage" -> SendMessage(c, k.message, k.isDebug, ex)
      [] k.op = "UploadBlob" -> UploadBlob(c, k.reader, ex)
      [] k.op = "TriggerJSON" -> TriggerJSON(c, k.payload, ex)
      [] OTHER -> TriggerForm(c, k.payload, k.reader, ex)

\* The call k made on the facade a.
AgentCall(a, k, ex) ==
    CASE k.op = "NewStreamer" -> BotAgentNewStreamer(a, k.message)
      [] k.op = "SendMessage" -> BotAgentSendMessage(a, k.message, k.isDebug, ex)
      [] k.op = "UploadBlob" -> BotAgentUploadBlob(a, k.reader, ex)
      [] k.op = "TriggerJSON" -> FunctionAgentTriggerJSON(a, k.payload, ex)
      [] OTHER -> FunctionAgentTriggerForm(a, k.payload, k.reader, ex)

\* The stream handle's state but for the crash flag.
streamRest ==
    <<opened, openErr, openArgs, wire, connResult, pcP, eventChan,
      chanClosed, currentEvent, err, closed, mu, cancelled, pc, ret, pushed,
      received, delivered, falses, closes>>

\* The program builds a facade of the given kind and, from the same
\* configuration, a client of its own to compare the facade with.
BuildAgent(kind, config) ==
    /\ agent = Nil
    /\ ~crashed
    /\ agent' = <<IF kind = "bot" THEN NewBotAgentWithConfig(config)
                                  ELSE NewFunctionAgentWithConfig(config)>>
    /\ client' = <<NewBotProviderClientWithConfig(config)>>
    /\ passedConfig' = config
    /\ callerConfig' = CallerConfigAfterNew(config)
    /\ UNCHANGED <<call, agentRet, clientRet, crashed, streamRest, pairVars,
                   pipeVars>>

\* The call k starts, on the facade and with the same arguments on the
\* client.  A call that fails before HTTPClient.Do returns at once; the
\* others wait for the network.
Invoke(k) ==
    /\ agent # Nil
    /\ ~crashed
    /\ IF call = Nil THEN TRUE ELSE call.done
    /\ k \in (IF agent[1].kind = "bot" THEN BotCalls ELSE FunctionCalls)
    /\ LET ra == AgentCall(agent[1], k, Refused)
           rc == ClientCall(client[1], k, Refused)
       IN /\ agentRet' = IF ra.req = Nil THEN <<ra>> ELSE Nil
          /\ clientRet' = IF rc.req = Nil THEN <<rc>> ELSE Nil
          /\ call' = [k |-> k, ex |-> Nil,
                      done |-> ra.req = Nil /\ rc.req = Nil]
    /\ UNCHANGED <<agent, client, passedConfig, callerConfig, crashed,
                   streamRest, pairVars, pipeVars>>

\* The network answers the pending call with the exchange ex and the call
\* returns, or the body writer panics.
Respond(ex) ==
    /\ IF call = Nil THEN FALSE ELSE ~call.done
    /\ ~crashed
    /\ LET ra == AgentCall(agent[1], call.k, ex)
           rc == ClientCall(client[1], call.k, ex)
       IN /\ agentRet' = <<ra>>
          /\ clientRet' = <<rc>>
          /\ crashed' = (ra.out = "panic" \/ rc.out = "panic")
    /\ call' = [call EXCEPT !.ex = <<ex>>, !.done = TRUE]
    /\ UNCHANGED <<agent, client, passedConfig, callerConfig, streamRest,
                   pairVars, pipeVars>>

NextSync ==
    \/ \E kind \in {"bot", "function"}, config \in ClientConfigs :
          BuildAgent(kind, config)
    \/ \E k \in BotCalls \cup FunctionCalls : Invoke(k)
    \/ \E ex \in Exchanges : Respond(ex)

SpecSync == Init /\ [][NextSync]_vars

\* The most recent call on the client has returned r.
Returned(r) ==
    /\ IF call = Nil THEN FALSE ELSE call.done
    /\ clientRet = <<r>>
    /\ r.out = "return"

\* The four calls that exchange one request for one envelope.
SyncOps == {"SendMessage", "TriggerJSON", "TriggerForm", "UploadBlob"}

\* The type the call decodes the envelope's data member into.
EnvelopeType(op) ==
    CASE op = "SendMessage" -> "GenericBotReply"
      [] op = "UploadBlob" -> "Blobs"
      [] OTHER -> "RawMessage"

\* The text contains the part x.
Contains(text, x) == \E i \in 1..Len(text) : text[i] = x

\* C18: a synchronous call that returns after a failed transport, an
\* undecodable body, a status other than 200 or an envelope with
\* isSuccess=false returns a non-nil error; a call that returns a nil error
\* had a successful transport, a decoded envelope, status 200 and
\* isSuccess=true.
C18_SyncCallErrorPolicy ==
    \A r \in {clientRet[i] : i \in 1..Len(clientRet)} :
        (Returned(r) /\ call.k.op \in SyncOps)
        => /\ call.ex = Nil => r.err # Nil
           /\ call.ex # Nil =>
                LET ex == call.ex[1]
                    failed == \/ ex.transport # "ok"
                              \/ ex.read = "fail"
                              \/ ~DecodesInto(EnvelopeType(call.k.op), ex.body)
                              \/ ex.status # 200
                              \/ ~ex.body.isSuccess
                IN /\ failed => (r.err # Nil /\ r.val = Nil)
                   /\ r.err = Nil => /\ ex.transport = "ok"
                                     /\ ex.body.json
                                     /\ ex.status = 200
                                     /\ ex.body.isSuccess

C18_Witness ==
    /\ call # Nil
    /\ call.k.op = "UploadBlob"
    /\ call.k.reader = "ok"
    /\ call.ex # Nil
    /\ call.ex[1].transport = "ok"
    /\ call.ex[1].status = 503
    /\ call.ex[1].body.isSuccess
    /\ call.ex[1].body.data = "list"
    /\ clientRet # Nil
    /\ clientRet[1].out = "return"
    /\ clientRet[1].err # Nil

\* C19: the error a call composes from a decoded envelope that failed the
\* status check carries the server's error and errorCode: both when both
\* are present, the one that is present otherwise, and the fixed text
\* "unknown error" when neither is.
C19_ComposedErrorCarriesServerText ==
    \A r \in {clientRet[i] : i \in 1..Len(clientRet)} :
        (/\ Returned(r)
         /\ call.k.op \in SyncOps
         /\ call.ex # Nil
         /\ call.ex[1].transport = "ok"
         /\ call.ex[1].read = "ok"
         /\ DecodesInto(EnvelopeType(call.k.op), call.ex[1].body)
         /\ (call.ex[1].status # 200 \/ ~call.ex[1].body.isSuccess))
        => LET e == call.ex[1].body.error
               c == call.ex[1].body.errorCode
               text == SubSeq(r.err, 3, Len(r.err))
           IN /\ Len(r.err) >= 3
              /\ r.err[2] = StatusText(call.ex[1].status)
              /\ e # Nil => Contains(text, e[1])
              /\ c # Nil => Contains(text, c[1])
              /\ (e # Nil /\ c # Nil) => text = <<e[1], " (", c[1], ")">>
              /\ (e # Nil /\ c = Nil) => text = <<e[1]>>
              /\ (e = Nil /\ c # Nil) => text = <<c[1]>>
              /\ (e = Nil /\ c = Nil) => text = <<"unknown error">>

C19_Witness ==
    /\ call # Nil
    /\ call.k.op = "TriggerJSON"
    /\ call.ex # Nil
    /\ call.ex[1].status = 200
    /\ call.ex[1].body.json
    /\ ~call.ex[1].body.isSuccess
    /\ call.ex[1].body.error = <<"bad payload">>
    /\ call.ex[1].body.errorCode = <<"E400">>
    /\ clientRet # Nil
    /\ clientRet[1].err =
          <<"trigger json failed", "200", "bad payload", " (", "E400", ")">>

allButRet ==
    <<opened, openErr, openArgs, wire, connResult, pcP, eventChan,
      chanClosed, currentEvent, err, closed, mu, cancelled, pc, crashed,
      pushed, received, delivered, falses, closes, syncVars, pairVars, pipeVars>>

\* C21: the current event is the event of the most recent Next call that
\* returned true, until Close resets it; Current() returns it; a Next call
\* that returns false leaves it alone; Current and Err change nothing; only
\* Close sets it back to nil.
C21_CurrentIsLastDelivered ==
    /\ [](currentEvent = IF closed \/ delivered = << >>
                         THEN Nil
                         ELSE <<delivered[Len(delivered)]>>)
    /\ [](ret.op = "Current" => ret.ev = currentEvent)
    /\ [][(\E t \in Threads : NextReturnsFalse(t))
            => currentEvent' = currentEvent]_vars
    /\ [][(ret' # ret /\ ret'.op \in {"Current", "Err"})
            => UNCHANGED allButRet]_vars
    /\ [][(currentEvent # Nil /\ currentEvent' = Nil)
            => (~closed /\ closed' /\ ret' = RetErr("Close", Nil))]_vars

C21_Witness ==
    /\ Len(delivered) >= 2
    /\ ~closed
    /\ falses >= 1
    /\ err # Nil
    /\ ret = RetEvent(<<delivered[Len(delivered)]>>)

\* ---------------------------------------------------------------- fairness
\* The Go scheduler runs a goroutine that can take a step: the producer
\* goroutine's own steps after Connect has returned are weakly fair.  The
\* transport (frames arriving, Connect returning) and the caller (starting
\* calls, cancelling) are under no obligation.
ProducerFair ==
    /\ WF_vars(PushConnError)
    /\ WF_vars(CloseChan)

\* A Next call inside the select takes a ready case.
SelectFair ==
    \A t \in Threads :
        WF_vars(NextRecv(t) \/ NextChanClosed(t) \/ NextCtxDone(t))

SpecLive == Spec /\ ProducerFair /\ SelectFair

SpecFullLive == SpecFull /\ ProducerFair /\ SelectFair

\* C22: once Connect has returned (clean end or failure) the producer
\* goroutine eventually closes the channel and exits, whatever the consumer
\* does or does not do (unless a panic ends the whole process first).
C22_ProducerEventuallyCloses ==
    (connResult # "running") ~> ((pcP = "done" /\ chanClosed) \/ crashed)

\* One of the cases of Next's select is ready.
SelectReady == cancelled \/ eventChan # << >> \/ chanClosed

\* C23: a Next call waiting in the select returns once the context is
\* cancelled, an item is in the channel or the channel is closed; in
\* particular cancellation alone wakes a call blocked on an empty channel.
C23_NextEventuallyReturns ==
    \A t \in Threads : (pc[t] = "select" /\ SelectReady) ~> (pc[t] = "idle")

\* C24: a frame that fails to decode does not end the producer: every
\* frame of the wire, before or after a malformed one, has its item pushed
\* in wire order, the producer stays in Connect until Connect itself
\* returns, and only that return takes it out of the loop.
C24_DecodeFailureKeepsProducer ==
    /\ [](/\ Len(pushed) >= Len(wire)
          /\ \A i \in 1..Len(wire) : pushed[i] = CallbackItem(wire[i]))
    /\ []((opened = "yes" /\ connResult = "running") => pcP = "connect")
    /\ []((pcP = "connect" /\ ~crashed /\ Len(wire) < MaxFrames)
            => ENABLED OnFrame(FrameData, MaxFrames))
    /\ [][(pcP = "connect" /\ pcP' # "connect")
            => (connResult = "running" /\ connResult' # "running"
                /\ pushed' = pushed)]_vars

\* The channel holds a decode-error item, then an event, then another
\* decode-error item.
C24_Witness ==
    /\ Len(eventChan) = 3
    /\ eventChan[1] = Wrapper(Nil, DecodeError)
    /\ eventChan[2].Event # Nil
    /\ eventChan[3] = Wrapper(Nil, DecodeError)
    /\ pcP = "connect"

\* A Close call returns in this step.
CloseStep ==
    \/ closes' # closes
    \/ (ret' # ret /\ ret'.op = "Close")

\* C25: a Close call changes only the closed flag and the current event:
\* the channel's contents and status, the producer's position, what the
\* transport did, the context and the error slot stay as they are.
C25_CloseTouchesOnlyClosedAndCurrent ==
    [][CloseStep =>
         /\ closed'
         /\ currentEvent' = Nil
         /\ UNCHANGED <<opened, openErr, openArgs, wire, connResult, pcP,
                        eventChan, chanClosed, pushed, cancelled, err, mu, pc,
                        crashed, received, delivered, falses, syncVars>>]_vars

\* After Close the producer is still inside Connect with undelivered items
\* in the channel, and goes on pushing.
C25_Witness ==
    /\ closed
    /\ closes = 1
    /\ ret = RetErr("Close", Nil)
    /\ Len(eventChan) = 2
    /\ pcP = "connect"
    /\ ~cancelled
    /\ err = Nil
    /\ ENABLED OnFrame(FrameData, MaxFrames)

\* ------------------------------------------------ two handles side by side
\* Each NewStreaming call builds its own botProviderStream, with its own
\* channel and its own producer goroutine; the context, the config and the
\* message are the caller's and may be the same for both.  A handle is the
\* record of its fields; eventChan is the identity of its channel in chans.
\* Handles are numbered in the order of the NewStreaming calls.
\* Only successful opens, well-formed delta frames and malformed frames are
\* kept here, and Next is taken as one step.
PairFrameData == { MalformedData, ObjectData(SseEventTypeMessageDelta, Nil) }

\* The server numbers the frames of each connection in a range of its own.
PairEventId(h, i) == 10 * h + i

\* Variant of MakeChan that hands out one pooled channel to every stream.
MakeChanPooled(chs) == 1

\* make(chan models.GenericBotSseEventWrapper, 100): a channel that did not
\* exist before.
MakeChan(chs) == Len(chs) + 1

\* The handle other than h.
OtherHandle(h) == CHOOSE g \in Handles : g # h

\* stream := &botProviderStream{...}; stream.connect() with a config and a
\* message that connect() accepts; the producer goroutine starts.
NewStreamingH(h, c) ==
    /\ handles[h] = Nil
    /\ \A g \in Handles : g < h => handles[g] # Nil
    /\ LET id == MakeChan(chans)
       IN /\ chans' = IF id > Len(chans)
                      THEN Append(chans, [buf |-> << >>, closed |-> FALSE])
                      ELSE chans
          /\ handles' = [handles EXCEPT ![h] =
                 [ctx |-> c, eventChan |-> id, pcP |-> "connect",
                  wire |-> << >>,
                  currentEvent |-> Nil, err |-> Nil, closed |-> FALSE,
                  delivered |-> << >>]]
    /\ UNCHANGED <<ctxDone, streamVars, syncVars, pipeVars>>

\* The callback of handle h decodes the next frame and sends the item on the
\* handle's channel.
OnFrameH(h, d) ==
    /\ handles[h] # Nil
    /\ handles[h].pcP = "connect"
    /\ Len(handles[h].wire) < MaxPairFrames
    /\ LET id == handles[h].eventChan
           f == Frame(d, PairEventId(h, Len(handles[h].wire) + 1))
       IN /\ ~ChanFull(chans[id].buf)
          /\ ~chans[id].closed
          /\ chans' = [chans EXCEPT ![id].buf = ChanSend(@, CallbackItem(f))]
          /\ handles' = [handles EXCEPT ![h].wire = Append(@, f)]
    /\ UNCHANGED <<ctxDone, streamVars, syncVars, pipeVars>>

\* s.connection.Connect() of handle h returns: io.EOF ("eof") or another
\* error ("fail").
ConnectReturnsH(h, r) ==
    /\ handles[h] # Nil
    /\ handles[h].pcP = "connect"
    /\ handles' = [handles EXCEPT ![h].pcP = IF r = "fail" THEN "pushErr"
                                             ELSE "closing"]
    /\ UNCHANGED <<chans, ctxDone, streamVars, syncVars, pipeVars>>

\* s.eventChan <- GenericBotSseEventWrapper{ConnectionError: ...} of handle h
PushConnErrorH(h) ==
    /\ handles[h] # Nil
    /\ handles[h].pcP = "pushErr"
    /\ LET id == handles[h].eventChan
       IN /\ ~ChanFull(chans[id].buf)
          /\ ~chans[id].closed
          /\ chans' = [chans EXCEPT ![id].buf = ChanSend(@, ConnErrorItem)]
    /\ handles' = [handles EXCEPT ![h].pcP = "closing"]
    /\ UNCHANGED <<ctxDone, streamVars, syncVars, pipeVars>>

\* defer close(s.eventChan) of handle h's producer goroutine
CloseChanH(h) ==
    /\ handles[h] # Nil
    /\ handles[h].pcP = "closing"
    /\ ~chans[handles[h].eventChan].closed
    /\ chans' = [chans EXCEPT ![handles[h].eventChan].closed = TRUE]
    /\ handles' = [handles EXCEPT ![h].pcP = "done"]
    /\ UNCHANGED <<ctxDone, streamVars, syncVars, pipeVars>>

\* Next() of handle h gets past the closed/error check and receives an item
\* of its channel: an event becomes the current event, a connection error
\* becomes the stored error.
NextRecvH(h) ==
    /\ handles[h] # Nil
    /\ ~handles[h].closed
    /\ handles[h].err = Nil
    /\ LET id == handles[h].eventChan
           ev == ChanHead(chans[id].buf)
       IN /\ chans[id].buf # << >>
          /\ chans' = [chans EXCEPT ![id].buf = ChanRest(@)]
          /\ handles' = IF ev.ConnectionError # Nil
                        THEN [handles EXCEPT ![h].err = ev.ConnectionError]
                        ELSE [handles EXCEPT
                                 ![h].currentEvent = ev.Event,
                                 ![h].delivered = Append(@, ev.Event[1])]
    /\ UNCHANGED <<ctxDone, streamVars, syncVars, pipeVars>>

\* Next() of handle h gets past the closed/error check and finds its context
\* done: the context's error becomes the stored error.
NextCtxDoneH(h) ==
    /\ handles[h] # Nil
    /\ ~handles[h].closed
    /\ handles[h].err = Nil
    /\ ctxDone[handles[h].ctx]
    /\ handles' = [handles EXCEPT ![h].err = CtxErr]
    /\ UNCHANGED <<chans, ctxDone, streamVars, syncVars, pipeVars>>

\* Close() of handle h, first call.
CloseH(h) ==
    /\ handles[h] # Nil
    /\ ~handles[h].closed
    /\ handles' = [handles EXCEPT ![h].closed = TRUE,
                                  ![h].currentEvent = Nil]
    /\ UNCHANGED <<chans, ctxDone, streamVars, syncVars, pipeVars>>

\* The caller cancels context c.
CancelH(c) ==
    /\ ~ctxDone[c]
    /\ ctxDone' = [ctxDone EXCEPT ![c] = TRUE]
    /\ UNCHANGED <<handles, chans, streamVars, syncVars, pipeVars>>

NextPair ==
    \/ \E h \in Handles, c \in Contexts : NewStreamingH(h, c)
    \/ \E h \in Handles, d \in PairFrameData : OnFrameH(h, d)
    \/ \E h \in Handles, r \in {"eof", "fail"} : ConnectReturnsH(h, r)
    \/ \E h \in Handles : PushConnErrorH(h)
    \/ \E h \in Handles : CloseChanH(h)
    \/ \E h \in Handles : NextRecvH(h)
    \/ \E h \in Handles : NextCtxDoneH(h)
    \/ \E h \in Handles : CloseH(h)
    \/ \E c \in Contexts : CancelH(c)

SpecPair == Init /\ [][NextPair]_vars

\* The events of the frames of wire w that decode, in wire order.
DecodedEventsOf(w) ==
    LET ok == SelectSeq(w, LAMBDA d : Unmarshal(d).err = Nil)
    IN [i \in 1..Len(ok) |-> Unmarshal(ok[i]).ev]

\* The events waiting in channel buffer b, in order.
EventsIn(b) ==
    LET evs == SelectSeq(b, LAMBDA item : item.Event # Nil)
    IN [i \in 1..Len(evs) |-> evs[i].Event[1]]

\* The step changes a field of handle h or the channel handle h holds.
TouchesHandle(h) ==
    \/ handles'[h] # handles[h]
    \/ /\ handles[h] # Nil
       /\ chans'[handles[h].eventChan] # chans[handles[h].eventChan]

\* C26: two handles opened by two NewStreaming calls are independent: no
\* step (operation or producer step) changes the fields or the channel of
\* both, the two handles never hold the same channel, and at every moment the
\* events a handle has delivered followed by those waiting in its channel are
\* exactly the decodable frames of its own connection, however the other
\* handle is consumed, closed or errored.
C26_StreamsAreIndependent ==
    /\ [][\A h \in Handles : ~(TouchesHandle(h) /\ TouchesHandle(OtherHandle(h)))]_vars
    /\ []((\A h \in Handles : handles[h] # Nil)
            => handles[1].eventChan # handles[2].eventChan)
    /\ [](\A h \in Handles : handles[h] # Nil =>
            /\ handles[h].delivered \o EventsIn(chans[handles[h].eventChan].buf)
                 = DecodedEventsOf(handles[h].wire)
            /\ handles[h].currentEvent # Nil =>
                 handles[h].currentEvent[1]
                   = handles[h].delivered[Len(handles[h].delivered)])

\* Both handles share a context; handle 1 took the decode error of its first
\* frame, was closed and abandoned with an event still in its channel,
\* while handle 2 delivered every frame of its own connection.
C26_Witness ==
    /\ \A h \in Handles : handles[h] # Nil
    /\ handles[1].ctx = handles[2].ctx
    /\ handles[1].closed
    /\ handles[1].err = DecodeError
    /\ EventsIn(chans[handles[1].eventChan].buf) # << >>
    /\ ~handles[2].closed
    /\ handles[2].err = Nil
    /\ Len(handles[2].delivered) = MaxPairFrames
    /\ handles[2].currentEvent # Nil

\* C27: the caller's configuration is shared read-only: the BotProviderConfig
\* the caller handed to a constructor has, after every library operation,
\* the field values it had when it was handed over.
C27_CallerConfigIsReadOnly == callerConfig = passedConfig

\* Thread t is between s.mu.Lock() and s.mu.Unlock() of a Next call.
InCritical(t) == pc[t] = "select"

\* The step is the rest of the call of the thread that holds the mutex.
HolderStep == \E t \in Threads : mu = <<t>> /\ InCritical(t) /\ ~InCritical(t)'

\* C28: the calls on a handle exclude each other: at most one thread is
\* inside a critical section, it is the one that holds the mutex, and every
\* step that writes currentEvent, err or closed, or that returns what it read
\* from them, is taken with the mutex free (a whole Current, Err or Close
\* call, or the check at the start of Next) or by the thread that holds it.
C28_CallsAreMutuallyExclusive ==
    /\ [](\A t, u \in Threads : InCritical(t) /\ InCritical(u) => t = u)
    /\ [](\A t \in Threads : InCritical(t) <=> mu = <<t>>)
    /\ [][(consVars' # consVars \/ ret' # ret) => (mu = Nil \/ HolderStep)]_vars

\* One thread waits in the select of Next with an event already delivered,
\* and the other thread can start none of Next, Current, Err and Close.
C28_Witness ==
    /\ InCritical("t1")
    /\ pc["t2"] = "idle"
    /\ currentEvent # Nil
    /\ ~ENABLED NextEnter("t2")
    /\ ~ENABLED Current("t2")
    /\ ~ENABLED Err("t2")
    /\ ~ENABLED Close("t2")

\* ------------------------------------- the writer of a multipart body
\* TriggerForm and UploadBlob hand the read end of an io.Pipe to the request
\* and start a goroutine that writes the multipart body into the write end;
\* the HTTP transport reads the other end and may close it at any time.
\* A pipe is its two error slots and its done flag.
EOF == <<"EOF">>
ErrClosedPipe == <<"io: read/write on closed pipe">>
ReadFailed == <<"read failed">>

\* The io.Reader of the call: nil, or a reader that yields some chunks and
\* then ends with io.EOF or with an error.
FormReaders ==
    {Nil} \cup { <<[chunks |-> n, ends |-> e]>> :
                    n \in 0..MaxChunks, e \in {"eof", "err"} }

\* mime *string: nil, empty or given.
Mimes == {"nil", "", "text/plain"}

FormCalls == [op : {"TriggerForm", "UploadBlob"}, reader : FormReaders,
              mime : Mimes]

\* One piece of the body, as the transport reads it.
Piece(kind, value) == [kind |-> kind, value |-> value]

\* Variant of PipeCloseWrite in which the last close decides the error.
PipeCloseWriteLastWins(p, e) ==
    [p EXCEPT !.werr = IF e = Nil THEN EOF ELSE e, !.done = TRUE]

\* pw.CloseWithError(e), and pw.Close() as pw.CloseWithError(nil): a nil
\* error becomes io.EOF, the slot keeps the first error stored in it, and
\* the pipe is done.
PipeCloseWrite(p, e) ==
    [p EXCEPT !.werr = IF @ # Nil THEN @ ELSE IF e = Nil THEN EOF ELSE e,
              !.done = TRUE]

\* pr.Close() by the transport.
PipeCloseRead(p) ==
    [p EXCEPT !.rerr = IF @ # Nil THEN @ ELSE ErrClosedPipe, !.done = TRUE]

\* The error of a Write on the write end: none while the pipe is open, else
\* the reader's close error if the writer stored none, else ErrClosedPipe.
PipeWriteError(p) ==
    IF ~p.done THEN Nil
    ELSE IF p.werr = Nil /\ p.rerr # Nil THEN p.rerr
    ELSE ErrClosedPipe

\* The text the goroutine puts before the error of its first field.
FieldFailure(op) ==
    IF op = "TriggerForm" THEN "failed to write json form field"
    ELSE "failed to write customChannelId"

\* The Content-Type header of the file part.
ContentType(mime) ==
    IF mime # "nil" /\ mime # "" THEN mime ELSE "application/octet-stream"

\* The chunks of the file the goroutine has copied into the pipe.
Copied == Len(SelectSeq(written, LAMBDA x : x.kind = "data"))

\* The call creates the pipe, the multipart writer and the request, and
\* starts the goroutine.
StartForm(f) ==
    /\ form = Nil
    /\ ~crashed
    /\ form' = <<f>>
    /\ pipe' = [werr |-> Nil, rerr |-> Nil, done |-> FALSE]
    /\ task' = [pc |-> "field", panicking |-> FALSE]
    /\ UNCHANGED <<written, failures, crashed, streamRest, syncVars, pairVars>>

\* _ = pw.CloseWithError(fmt.Errorf("<text>: %w", e)); return
FailWith(text, e) ==
    /\ pipe' = PipeCloseWrite(pipe, Wrap(text, e))
    /\ failures' = Append(failures, Wrap(text, e))
    /\ task' = [task EXCEPT !.pc = "closeWriter"]
    /\ UNCHANGED written

\* writer.WriteField("json", ...) / writer.WriteField("customChannelId", ...)
WriteField ==
    /\ task.pc = "field"
    /\ ~crashed
    /\ IF PipeWriteError(pipe) # Nil
       THEN FailWith(FieldFailure(form[1].op), PipeWriteError(pipe))
       ELSE /\ written' = Append(written, Piece("field", form[1].op))
            /\ task' = [task EXCEPT !.pc =
                          IF form[1].op = "TriggerForm" /\ form[1].reader = Nil
                          THEN "closeWriter" ELSE "part"]
            /\ UNCHANGED <<pipe, failures>>
    /\ UNCHANGED <<form, crashed, streamRest, syncVars, pairVars>>

\* part, err := writer.CreatePart(header)
CreatePart ==
    /\ task.pc = "part"
    /\ ~crashed
    /\ IF PipeWriteError(pipe) # Nil
       THEN FailWith("failed to create multipart part", PipeWriteError(pipe))
       ELSE /\ written' = Append(written,
                                 Piece("part", ContentType(form[1].mime)))
            /\ task' = [task EXCEPT !.pc = "copy"]
            /\ UNCHANGED <<pipe, failures>>
    /\ UNCHANGED <<form, crashed, streamRest, syncVars, pairVars>>

\* One turn of the loop of io.Copy(part, reader): a Read of the caller's
\* reader and, if it gave a chunk, a Write into the pipe.  A nil reader makes
\* the Read panic, and the deferred calls run while the goroutine unwinds.
Copy ==
    /\ task.pc = "copy"
    /\ ~crashed
    /\ IF form[1].reader = Nil
       THEN /\ task' = [pc |-> "closeWriter", panicking |-> TRUE]
            /\ UNCHANGED <<pipe, written, failures>>
       ELSE IF Copied < form[1].reader[1].chunks
       THEN IF PipeWriteError(pipe) # Nil
            THEN FailWith("failed to copy file data", PipeWriteError(pipe))
            ELSE /\ written' = Append(written, Piece("data", Copied + 1))
                 /\ UNCHANGED <<pipe, task, failures>>
       ELSE IF form[1].reader[1].ends = "err"
       THEN FailWith("failed to copy file data", ReadFailed)
       ELSE /\ task' = [task EXCEPT !.pc = "closeWriter"]
            /\ UNCHANGED <<pipe, written, failures>>
    /\ UNCHANGED <<form, crashed, streamRest, syncVars, pairVars>>

\* The second deferred call: writer.Close() writes the closing boundary; if
\* that fails, pw.CloseWithError("failed to close multipart writer: ...").
WriterClose ==
    /\ task.pc = "closeWriter"
    /\ ~crashed
    /\ IF PipeWriteError(pipe) # Nil
       THEN /\ pipe' = PipeCloseWrite(pipe,
                          Wrap("failed to close multipart writer",
                               PipeWriteError(pipe)))
            /\ failures' = Append(failures,
                              Wrap("failed to close multipart writer",
                                   PipeWriteError(pipe)))
            /\ UNCHANGED written
       ELSE /\ written' = Append(written, Piece("boundary", "closing"))
            /\ UNCHANGED <<pipe, failures>>
    /\ task' = [task EXCEPT !.pc = "closePipe"]
    /\ UNCHANGED <<form, crashed, streamRest, syncVars, pairVars>>

\* The first deferred call: pw.Close().  A goroutine that was unwinding from
\* a panic then takes the process down.
PipeClose ==
    /\ task.pc = "closePipe"
    /\ ~crashed
    /\ pipe' = PipeCloseWrite(pipe, Nil)
    /\ task' = [task EXCEPT !.pc = IF task.panicking THEN "panicked"
                                   ELSE "done"]
    /\ crashed' = task.panicking
    /\ UNCHANGED <<form, written, failures, streamRest, syncVars, pairVars>>

\* The HTTP transport gives up on the request and closes its body.
TransportClosesBody ==
    /\ task.pc # "none"
    /\ ~crashed
    /\ pipe.rerr = Nil
    /\ pipe' = PipeCloseRead(pipe)
    /\ UNCHANGED <<form, task, written, failures, crashed, streamRest,
                   syncVars, pairVars>>

NextPipe ==
    \/ \E f \in FormCalls : StartForm(f)
    \/ WriteField
    \/ CreatePart
    \/ Copy
    \/ WriterClose
    \/ PipeClose
    \/ TransportClosesBody

SpecPipe == Init /\ [][NextPipe]_vars

\* The goroutine has left its function and run its deferred calls.
WriterExited == task.pc \in {"done", "panicked"}

\* C29: on every exit path of the body writer the write end of the pipe is
\* closed; once a step has failed the pipe carries the error of the first
\* failing step, and no later close changes the error the pipe carries; when
\* no step failed the pipe is closed with io.EOF (no error) and the closing
\* boundary is the last thing written.
C29_PipeCarriesFirstFailure ==
    /\ [](WriterExited => pipe.done /\ pipe.werr # Nil)
    /\ [](failures # << >> => pipe.werr = failures[1])
    /\ []((WriterExited /\ failures = << >>) =>
            /\ pipe.werr = EOF
            /\ written # << >>
            /\ written[Len(written)] = Piece("boundary", "closing"))
    /\ [][pipe.werr # Nil => pipe'.werr = pipe.werr]_vars

\* The caller's reader failed in the middle of the copy, the deferred
\* writer.Close() failed too, and the goroutine has exited: the pipe still
\* carries the copy failure.
C29_Witness ==
    /\ task.pc = "done"
    /\ Len(failures) = 2
    /\ failures[1] = Wrap("failed to copy file data", ReadFailed)
    /\ failures[2][1] = "failed to close multipart writer"
    /\ pipe.werr = failures[1]
    /\ pipe.rerr = Nil
    /\ Copied >= 1

\* The producer is blocked in a send: the callback holds a frame, or the
\* goroutine the connection error, and the channel has no room.
ProducerBlocked ==
    /\ ~crashed
    /\ \/ /\ pcP = "connect"
          /\ Len(wire) < ChanCap + MaxExtra
          /\ ~ENABLED OnFrame(DeltaData, ChanCap + MaxExtra)
       \/ /\ pcP = "pushErr"
          /\ ~ENABLED PushConnError

\* The Next call of thread t is past its closed/error check and no case of
\* its select is ready.
NextBlocked(t) ==
    /\ pc[t] = "select"
    /\ ~ENABLED NextRecv(t)
    /\ ~ENABLED NextChanClosed(t)
    /\ ~ENABLED NextCtxDone(t)

C31_NextNeverCrashes ==
    /\ ~crashed
    /\ \A t \in Threads : pc[t] # "panicked"
    /\ \A i \in 1..Len(received) :
          IsRunError(received[i]) => (err # Nil /\ falses >= 1)

\* The item is a decoded event whose type is not run.error.
IsOtherEvent(item) ==
    /\ item.Event # Nil
    /\ item.Event[1].EventType # SseEventTypeRunError

\* C32: Next checks nothing about a decoded event but its type being
\* run.error: a Next call that receives a decoded event of any other type,
\* known or not, with or without a fact, in any order, returns true, makes it
\* the current event, which Current then returns, and stores no error.
C32_NextValidatesOnlyRunError ==
    /\ [][ ( /\ received' # received
             /\ IsOtherEvent(received'[Len(received')]) )
           => /\ ret' = RetBool(TRUE)
              /\ currentEvent' = received'[Len(received')].Event
              /\ delivered' = Append(delivered, currentEvent'[1])
              /\ err' = err ]_vars
    /\ [][ (ret' # ret /\ ret'.op = "Current") => ret'.ev = currentEvent ]_vars

\* Current returned an event of an unknown type with no fact, delivered
\* after a message.complete with no start before it and a message.delta
\* whose fact belongs to another type.
C32_Witness ==
    /\ Len(delivered) = 3
    /\ delivered[1].EventType = SseEventTypeMessageComplete
    /\ delivered[2].EventType = SseEventTypeMessageDelta
    /\ delivered[2].Fact.RunError # Nil
    /\ delivered[3].EventType = UnknownEventType
    /\ delivered[3].Fact.RunError = Nil
    /\ ret = RetEvent(<<delivered[3]>>)
    /\ err = Nil

\* The exchange is a successful envelope for an operation that decodes data
\* into T: the transport worked, the body was read and decoded, the status
\* is 200 and isSuccess is true.
SuccessfulEnvelope(T, ex) ==
    /\ ex.transport = "ok"
    /\ ex.read = "ok"
    /\ DecodesInto(T, ex.body)
    /\ ex.status = 200
    /\ ex.body.isSuccess

\* C33: a call that returns on a successful envelope: TriggerJSON and
\* TriggerForm return a nil result with a nil error when data is absent or
\* null; UploadBlob returns an error and no blob when the data list is empty
\* (or data is absent or null), and otherwise the first blob of the list
\* with a nil error.
C33_NilDataResults ==
    \A r \in {clientRet[i] : i \in 1..Len(clientRet)} :
        ( /\ Returned(r)
          /\ call.ex # Nil
          /\ call.k.op \in {"TriggerJSON", "TriggerForm", "UploadBlob"}
          /\ SuccessfulEnvelope(EnvelopeType(call.k.op), call.ex[1]) )
        => LET data == call.ex[1].body.data
           IN IF call.k.op = "UploadBlob"
              THEN IF data = "list"
                   THEN r.err = Nil /\ r.val = <<"blob1">>
                   ELSE /\ r.val = Nil
                        /\ r.err = <<"upload blob succeeded but no blob metadata returned">>
              ELSE data \in {"absent", "null"} => (r.val = Nil /\ r.err = Nil)

\* TriggerForm returned nil, nil on a successful envelope whose data is null.
C33_Witness ==
    /\ call # Nil
    /\ call.k.op = "TriggerForm"
    /\ call.ex # Nil
    /\ SuccessfulEnvelope("RawMessage", call.ex[1])
    /\ call.ex[1].body.data = "null"
    /\ clientRet # Nil
    /\ clientRet[1].out = "return"
    /\ clientRet[1].val = Nil
    /\ clientRet[1].err = Nil

\* Exactly one of the item's Event and ConnectionError is non-nil.
ExactlyOne(item) == (item.Event # Nil) # (item.ConnectionError # Nil)

\* C34: every item the producer pushes onto the event channel, and so every
\* item in the channel and every item a Next call receives, has exactly one
\* of Event and ConnectionError non-nil: a received item whose
\* ConnectionError is nil carries an event.
C34_ItemHasEventXorError ==
    /\ \A i \in 1..Len(pushed) : ExactlyOne(pushed[i])
    /\ \A i \in 1..Len(eventChan) : ExactlyOne(eventChan[i])
    /\ \A i \in 1..Len(received) :
          received[i].ConnectionError = Nil => received[i].Event # Nil

\* The producer has pushed an event, a decode-error item and the connection
\* error item, and Next calls have received the first two.
C34_Witness ==
    /\ Len(pushed) = 3
    /\ pushed[1].Event # Nil
    /\ pushed[2] = Wrapper(Nil, DecodeError)
    /\ pushed[3] = ConnErrorItem
    /\ Len(received) = 2
    /\ currentEvent = pushed[1].Event
    /\ err = DecodeError
====
